---- MODULE Spec2Model ----
(***************************************************************************)
(* The discharge pipeline of backend/agent_service.py (run_extraction_agent *)
(* -> verification call -> run_task_generator_agent) and the triggers of    *)
(* backend/server.py that start it, over the document-store collections     *)
(* patients, extracted_data, tasks and agent_logs.                          *)
(*                                                                         *)
(* Every `await` of the two agents is one step of a run.  A store write may *)
(* fail (PersistenceFailure); the external extraction call, the            *)
(* verification call and the model call return one of a small set of        *)
(* replies.                                                                 *)
(***************************************************************************)
EXTENDS Integers, Sequences, FiniteSets, TLC

VARIABLES patients, extracted_data, tasks, agent_logs, run, faults, api

vars == <<patients, extracted_data, tasks, agent_logs, run, faults, api>>

(* ------------------------------ bounds ---------------------------------- *)

\* number of agent invocations (background tasks) in one behaviour
MaxRuns == 1

\* number of store writes that fail in one behaviour
MaxFaults == 2

\* number of PATCH /tasks/{task_id}/status requests in one behaviour
MaxUpdates == 2

\* number of GET /overview requests in one behaviour
MaxOverviews == 1

\* number of GET /overview requests on a store that nothing writes
MaxSnapshotReads == 2

RunIds == 1..MaxRuns

(* ------------------------------ values ---------------------------------- *)

\* Python's None
None == "None"

\* ids of the Patient records of the store
PatientIds == {"p1"}

\* an id that matches no Patient record
UnknownId == "p0"

AllIds == PatientIds \cup {UnknownId}

\* dict.get(key, default)
Get(d, key, default) == IF key \in DOMAIN d THEN d[key] ELSE default

(* ----------------- the external extraction call ------------------------- *)

\* JSON mappings the automation service may return as its "response" text
ReplyMappings ==
    { [radiology_pending |-> <<"MRI">>,
       billing_pending |-> [amount |-> 300],
       discharge_blockers |-> <<>>] }

\* what the POST to /process can give: a transport error, a non-200 status,
\* or status 200 whose text is a JSON mapping, a JSON value that is no
\* mapping, or no JSON at all
ExtractionReplies ==
    { [kind |-> "transport_error"], [kind |-> "non_200"],
      [kind |-> "not_json"], [kind |-> "json_non_mapping"] }
    \cup { [kind |-> "json_mapping", mapping |-> m] : m \in ReplyMappings }

\* no call made yet
NoReply == [kind |-> "none"]

\* the structured output built from the parsed reply (try branch)
BuildExtracted(llm_json) ==
    [ pharmacy_pending |-> Get(llm_json, "pharmacy_pending", <<>>),
      radiology_pending |-> Get(llm_json, "radiology_pending", <<>>),
      billing_pending |-> Get(llm_json, "billing_pending", <<>>),
      discharge_blockers |-> Get(llm_json, "discharge_blockers", <<>>),
      extraction_method |-> "api_service_automation" ]

\* the snapshot of the except branch of run_playwright_mcp_extraction
PlaywrightFallback ==
    [ pharmacy_pending |-> <<"Discharge medications to be filled">>,
      radiology_pending |-> <<>>,
      billing_pending |-> [amount |-> 0],
      discharge_blockers |-> <<"Awaiting pharmacy clearance">>,
      extraction_method |-> "playwright_mcp_fallback" ]

\* the snapshot run_extraction_agent substitutes for an invalid result
StaticFallback ==
    [ pharmacy_pending |-> <<"Amoxicillin 500mg", "Ibuprofen 400mg">>,
      radiology_pending |-> <<"Chest X-Ray - Follow-up">>,
      billing_pending |-> [amount |-> 1250],
      discharge_blockers |-> <<"Pending pharmacy fulfillment",
                               "Final doctor approval needed">>,
      extraction_method |-> "fallback_static" ]

\* the snapshot of the except branch of run_extraction_agent
ErrorFallback ==
    [ pharmacy_pending |-> <<"Discharge medications pending">>,
      radiology_pending |-> <<>>,
      billing_pending |-> [amount |-> 0],
      discharge_blockers |-> <<"Awaiting final clearance">>,
      extraction_method |-> "error_fallback" ]

\* the value of a Python function that ends without a return statement
NoValue == [extraction_method |-> None]

\* the reply makes the try block raise: no connection, status # 200, or
\* llm_json.get on a parsed value that is no dict
ExtractionRaises(reply) ==
    reply.kind \in {"transport_error", "non_200", "json_non_mapping"}

\* the parsed reply: json.loads, or {} when the text is no JSON
ParsedReply(reply) ==
    IF reply.kind = "json_mapping" THEN reply.mapping ELSE <<>>

\* variant of run_playwright_mcp_extraction with no return statement at all
run_playwright_mcp_extraction_no_return(reply) == NoValue

\* run_playwright_mcp_extraction: the only `return extracted_data` is the
\* last statement of the except block, so the try branch, which builds
\* BuildExtracted(ParsedReply(reply)), falls off the end of the function
run_playwright_mcp_extraction(reply) ==
    IF ExtractionRaises(reply) THEN PlaywrightFallback ELSE NoValue

\* `if not extracted_data or not isinstance(extracted_data, dict)`
ValidatedExtraction(result) ==
    IF result = NoValue THEN StaticFallback ELSE result

(* ------------------------ the task-model call --------------------------- *)

Task(title, category, priority) ==
    [title |-> title, category |-> category, priority |-> priority]

\* task.get('title', '')
Title(task) == Get(task, "title", "")

\* task objects a model reply may hold
WoundCare == Task("Wound Care Review", "medical", "high")
MedRec == Task("Medication Reconciliation", "medical", "medium")
FollowUp == Task("Schedule Follow-up Visit", "operational", "low")

\* an array entry that is no JSON object
NonDict == [nondict |-> TRUE]

IsDict(x) == "nondict" \notin DOMAIN x

\* the two essential tasks
PatientEducation == Task("Patient Education", "operational", "high")
ArrangeTransportation == Task("Arrange Transportation", "operational", "medium")

\* a task object that also carries keys of the Task record
Overriding(task, keys) == keys @@ task

ModelArrays ==
    { <<>>,
      <<WoundCare, MedRec>>,
      <<PatientEducation, ArrangeTransportation>>,
      <<WoundCare, MedRec, FollowUp>>,
      <<WoundCare, PatientEducation, ArrangeTransportation>>,
      <<PatientEducation, PatientEducation, ArrangeTransportation>>,
      <<WoundCare, MedRec, NonDict>>,
      <<Overriding(WoundCare, [status |-> "completed"]), MedRec, FollowUp>>,
      <<Overriding(WoundCare, [patient_id |-> UnknownId]),
        Overriding(PatientEducation, [patient_id |-> UnknownId]),
        Overriding(ArrangeTransportation, [patient_id |-> UnknownId])>> }

\* what llm_task.ainvoke and the parsing of its content can give: an API
\* error or timeout, text that is no JSON, a JSON object, a JSON array
ModelReplies ==
    { [kind |-> "api_error"], [kind |-> "not_json"], [kind |-> "json_object"] }
    \cup { [kind |-> "json_array", items |-> a] : a \in ModelArrays }

\* `tasks` after the Gemini block: the parsed array, [] on any error
ParsedTasks(reply) ==
    IF reply.kind = "json_array" THEN reply.items ELSE <<>>

Truthy(list) == Len(list) > 0

\* variant of RuleBasedTasks without the nursing checklist
RuleBasedTasks_no_nursing(xd) ==
    (IF Truthy(xd.radiology_pending)
        THEN <<Task("Complete Pending Radiology", "medical", "high")>> ELSE <<>>)
    \o <<Task("Doctor Discharge Clearance", "medical", "critical")>>
    \o (IF Truthy(xd.pharmacy_pending)
        THEN <<Task("Pharmacy Fulfillment", "operational", "high")>> ELSE <<>>)
    \o (IF Get(xd.billing_pending, "amount", 0) > 0
        THEN <<Task("Clear Pending Bills", "financial", "high")>> ELSE <<>>)

\* the rule-based tasks appended when the parsed list is short
RuleBasedTasks(xd) ==
    (IF Truthy(xd.radiology_pending)
        THEN <<Task("Complete Pending Radiology", "medical", "high")>> ELSE <<>>)
    \o <<Task("Doctor Discharge Clearance", "medical", "critical")>>
    \o (IF Truthy(xd.pharmacy_pending)
        THEN <<Task("Pharmacy Fulfillment", "operational", "high")>> ELSE <<>>)
    \o <<Task("Nursing Discharge Checklist", "operational", "medium")>>
    \o (IF Get(xd.billing_pending, "amount", 0) > 0
        THEN <<Task("Clear Pending Bills", "financial", "high")>> ELSE <<>>)

\* variant of WithRuleBased whose threshold is one higher
WithRuleBased_up_to_three(list, xd) ==
    IF Len(list) < 4 THEN list \o RuleBasedTasks(xd) ELSE list

\* variant of WithRuleBased that never appends the rule-based tasks
WithRuleBased_never(list, xd) == list

\* `if len(tasks) < 3:` ... tasks.append(...)
WithRuleBased(list, xd) ==
    IF Len(list) < 3 THEN list \o RuleBasedTasks(xd) ELSE list

\* variant of WithEssential that appends without looking at the titles
WithEssential_unchecked(list) ==
    list \o <<PatientEducation>> \o <<ArrangeTransportation>>

\* the essential-task check: append each essential task whose title is not
\* among the titles of the list
WithEssential(list) ==
    LET task_titles == { Title(list[k]) : k \in DOMAIN list } IN
    list
    \o (IF "Patient Education" \notin task_titles
        THEN <<PatientEducation>> ELSE <<>>)
    \o (IF "Arrange Transportation" \notin task_titles
        THEN <<ArrangeTransportation>> ELSE <<>>)

\* the primary logic raises before the first insert: a JSON object has no
\* append / its keys have no get, and an array entry that is no object has
\* no get
SynthesisRaises(reply) ==
    \/ reply.kind = "json_object"
    \/ /\ reply.kind = "json_array"
       /\ \E k \in DOMAIN reply.items : ~IsDict(reply.items[k])

\* the task list of lines 271-334
SynthesizedTasks(reply, xd) ==
    WithEssential(WithRuleBased(ParsedTasks(reply), xd))

\* the fixed list of the hard fallback
fallback_tasks ==
    << Task("Doctor Discharge Clearance", "medical", "critical"),
       Task("Complete Discharge Documentation", "operational", "high"),
       Task("Patient Education", "operational", "high"),
       Task("Arrange Transportation", "operational", "medium"),
       Task("Verify Insurance and Billing", "financial", "medium") >>

\* variant of DerivedStatus that ignores the blockers
DerivedStatus_always_ready(xd) == "ready"

\* "ready" if len(discharge_blockers) == 0 else "blocked"
DerivedStatus(xd) ==
    IF Len(Get(xd, "discharge_blockers", <<>>)) = 0 THEN "ready" ELSE "blocked"

\* datetime values, to the day; a behaviour plays within one day of the
\* clock, so every datetime.now(timezone.utc) gives Clock
Clock == [day |-> 0]

\* a datetime field that holds None
NoTime == [none |-> TRUE]

\* isinstance(x, datetime)
IsTime(x) == "day" \in DOMAIN x

\* f"task_{patient_id}_{int(timestamp)}_{len(tasks)}": the inserts of one
\* invocation fall into one second of the clock, which `second` names
TaskId(patient_id, second, n) == <<"task", patient_id, second, n>>

\* task_doc: the defaults, then **task_data on top of them
TaskDoc(oid, patient_id, n, task_data) ==
    task_data @@ [ oid |-> oid,
                   id |-> TaskId(patient_id, oid[1], n),
                   patient_id |-> patient_id,
                   status |-> "pending",
                   created_at |-> Clock,
                   completed_at |-> None,
                   deadline |-> None,
                   assigned_to |-> None ]

\* extraction_doc / fallback_extraction_doc
ExtractionDoc(oid, patient_id, extracted) ==
    [oid |-> oid, patient_id |-> patient_id] @@ extracted

\* result=None
NoResult == [ none |-> TRUE ]

\* tasks_json[:200] if tasks_json else "": the text of the model reply,
\* empty when the call gave none
LlmResponse(reply) ==
    IF reply.kind \in {"json_array", "json_object", "not_json"}
    THEN reply.kind ELSE ""

\* the `result` argument of each call of log_agent_action, by its action
LogResult(action, list, reply) ==
    CASE action = "tasks_generated" ->
             [ task_count |-> Len(list), llm_response |-> LlmResponse(reply) ]
      [] action = "task_generation_failed" ->
             [ fallback_tasks_inserted |-> TRUE ]
      [] action = "extraction_complete" ->
             [ extraction_id |-> "id" ]
      [] action = "extraction_failed_fallback_used" ->
             [ extraction_id |-> "id", error |-> "error" ]
      [] action = "extraction_failed" ->
             [ fallback_error |-> "error" ]
      [] OTHER -> NoResult

\* log_entry of log_agent_action
LogEntry(oid, patient_id, agent_type, action, result, error) ==
    [ oid |-> oid, patient_id |-> patient_id, agent_type |-> agent_type,
      action |-> action, result |-> result, error |-> error ]

\* db.extracted_data.find_one({"patient_id": patient_id}): the first
\* matching document in insertion order, None when there is none
FindExtracted(patient_id) ==
    LET hits == { k \in DOMAIN extracted_data :
                    extracted_data[k].patient_id = patient_id } IN
    IF hits = {} THEN NoValue
    ELSE extracted_data[CHOOSE k \in hits : \A j \in hits : k <= j]

(* ------------------------------ the state ------------------------------- *)

\* outcomes of the POST to the verification service (a timeout is one of the
\* transport errors httpx raises)
VerifyOutcomes == {"status_200", "other_status", "transport_error"}

\* a run that has not been started
IdleRun ==
    [ pc |-> "idle", entry |-> "none", patient_id |-> UnknownId, ret |-> "none",
      ext |-> NoReply, extracted |-> NoValue, xd |-> NoValue,
      reply |-> NoReply, list |-> <<>>, k |-> 1, hk |-> 1, seq |-> 0,
      verifies |-> 0, verify |-> "none", tg_calls |-> 0,
      write_failed |-> FALSE ]

\* the locals of run_task_generator_agent, gone when it returns
NoLocals ==
    [xd |-> NoValue, reply |-> NoReply, list |-> <<>>, k |-> 1, hk |-> 1]

\* the requests to the endpoints that start no agent: none made yet
NoRequests == [ updates |-> 0, overviews |-> 0, ov |-> [ pc |-> "idle" ],
                response |-> [ status_code |-> 0 ],
                previous |-> [ status_code |-> 0 ] ]

\* a Patient record as create_patient stores it; has_mrn is false for the
\* records of the PatientCare hub, which share the collection
NewPatient(has_mrn) ==
    [ has_mrn |-> has_mrn,
      discharge_status |-> "pending",
      ready_for_discharge_eval |-> FALSE,
      extraction_completed |-> FALSE,
      tasks_generated |-> FALSE,
      ward |-> None,
      delay_reason |-> None,
      readiness_score |-> <<>>,
      readmission_risk |-> <<>>,
      readmission_risk_level |-> None,
      expected_discharge_at |-> NoTime,
      created_at |-> Clock,
      updated_at |-> Clock ]

\* the store right after the patients were created
Fresh ==
    /\ patients \in [PatientIds -> {NewPatient(TRUE), NewPatient(FALSE)}]
    /\ extracted_data = <<>>
    /\ tasks = {}
    /\ agent_logs = {}

\* the store after an earlier pipeline run (run 0) for patient p, started by
\* mark-ready, in which the extraction call returned a non-200 status, the
\* model call failed and every write succeeded
EarlierRun(p) ==
    LET list == SynthesizedTasks([kind |-> "api_error"], PlaywrightFallback) IN
    /\ patients =
          [ q \in PatientIds |->
              IF q = p
              THEN [ discharge_status |-> DerivedStatus(PlaywrightFallback),
                     ready_for_discharge_eval |-> TRUE,
                     extraction_completed |-> TRUE,
                     tasks_generated |-> TRUE ] @@ NewPatient(TRUE)
              ELSE NewPatient(TRUE) ]
    /\ extracted_data = <<ExtractionDoc(<<0, 1>>, p, PlaywrightFallback)>>
    /\ tasks = { TaskDoc(<<0, 3 + k>>, p, Len(list), list[k]) : k \in DOMAIN list }
    /\ agent_logs =
          { LogEntry(<<0, 0>>, p, "extraction_agent", "start_extraction",
                     NoResult, None),
            LogEntry(<<0, 2>>, p, "extraction_agent", "extraction_complete",
                     LogResult("extraction_complete", list, [kind |-> "api_error"]),
                     None),
            LogEntry(<<0, 3>>, p, "task_generator_agent",
                     "start_task_generation", NoResult, None),
            LogEntry(<<0, 4 + Len(list)>>, p, "task_generator_agent",
                     "tasks_generated",
                     LogResult("tasks_generated", list, [kind |-> "api_error"]),
                     None) }

Init ==
    /\ Fresh \/ \E p \in PatientIds : EarlierRun(p)
    /\ run = [r \in RunIds |-> IdleRun]
    /\ faults = 0
    /\ api = NoRequests

\* the locals of run r with the given ones replaced
Set(r, fields) == [run EXCEPT ![r] = fields @@ @]

\* the run has returned to whoever started it
Ended(r) == run[r].pc \in {"done", "escaped"}

\* a background task is started on a free slot; runs interleave at awaits
MayStart(r) ==
    /\ run[r].pc = "idle"
    /\ \A q \in RunIds : q < r => run[q].pc # "idle"

\* the store accepts (ok) or rejects this write
StoreAnswers(ok) ==
    /\ IF ok THEN faults' = faults
       ELSE faults < MaxFaults /\ faults' = faults + 1
    /\ UNCHANGED api

\* the write of this step raises: control goes to the handler, whose
\* position and locals are `handler`
WriteFails(r, handler) ==
    /\ StoreAnswers(FALSE)
    /\ run' = Set(r, handler @@ [write_failed |-> TRUE])
    /\ UNCHANGED <<patients, extracted_data, tasks, agent_logs>>

\* log_agent_action succeeds, and the run goes on with the locals `next`
Logged(r, agent_type, action, error, next) ==
    /\ StoreAnswers(TRUE)
    /\ agent_logs' = agent_logs \cup
            { LogEntry(<<r, run[r].seq>>, run[r].patient_id, agent_type,
                       action, LogResult(action, run[r].list, run[r].reply),
                       error) }
    /\ run' = Set(r, next @@ [seq |-> run[r].seq + 1])
    /\ UNCHANGED <<patients, extracted_data, tasks>>

\* db.patients.update_one({"id": patient_id}, {"$set": fields}): a no-op
\* when no record matches
UpdatedPatients(patient_id, fields) ==
    [ p \in PatientIds |->
        IF p = patient_id
        THEN fields @@ [updated_at |-> Clock] @@ patients[p]
        ELSE patients[p] ]

(* ------------------------------ triggers -------------------------------- *)

\* variant of mark_patient_ready that starts the evaluation over
mark_patient_ready_resetting(r, patient_id) ==
    /\ MayStart(r)
    /\ patient_id \in PatientIds
    /\ patients' = UpdatedPatients(patient_id,
            [ ready_for_discharge_eval |-> TRUE, discharge_status |-> "in_progress",
              extraction_completed |-> FALSE, tasks_generated |-> FALSE ])
    /\ run' = Set(r, [pc |-> "ea_find", entry |-> "extraction",
                      patient_id |-> patient_id, ret |-> "top"])
    /\ UNCHANGED <<extracted_data, tasks, agent_logs, faults, api>>

\* POST /patients/{id}/mark-ready (404 and no effect for an unknown id)
mark_patient_ready(r, patient_id) ==
    /\ MayStart(r)
    /\ patient_id \in PatientIds
    /\ patients' = UpdatedPatients(patient_id,
            [ready_for_discharge_eval |-> TRUE, discharge_status |-> "in_progress"])
    /\ run' = Set(r, [pc |-> "ea_find", entry |-> "extraction",
                      patient_id |-> patient_id, ret |-> "top"])
    /\ UNCHANGED <<extracted_data, tasks, agent_logs, faults, api>>

\* POST /patients/{id}/extract
trigger_extraction(r, patient_id) ==
    /\ MayStart(r)
    /\ patient_id \in PatientIds
    /\ run' = Set(r, [pc |-> "ea_find", entry |-> "extraction",
                      patient_id |-> patient_id, ret |-> "top"])
    /\ UNCHANGED <<patients, extracted_data, tasks, agent_logs, faults, api>>

\* POST /patients/{id}/generate-tasks
generate_tasks(r, patient_id) ==
    /\ MayStart(r)
    /\ patient_id \in PatientIds
    /\ run' = Set(r, [pc |-> "tg_find", entry |-> "task_generator",
                      patient_id |-> patient_id, ret |-> "top",
                      tg_calls |-> 1])
    /\ UNCHANGED <<patients, extracted_data, tasks, agent_logs, faults, api>>

\* run_extraction_agent called with an id that matches no Patient record
extraction_of_unknown(r) ==
    /\ MayStart(r)
    /\ run' = Set(r, [pc |-> "ea_find", entry |-> "extraction",
                      patient_id |-> UnknownId, ret |-> "top"])
    /\ UNCHANGED <<patients, extracted_data, tasks, agent_logs, faults, api>>

\* the values of `status` the model sends; pending and failed are handled
\* like in_progress, the code tests for COMPLETED only
StatusInputs == {"completed", "in_progress"}

\* the ids a request can name: those in the store and one that is not
TaskIdInputs == { t.id : t \in tasks } \cup { TaskId(UnknownId, 0, 0) }

\* the document update_one({"id": task_id}, ...) changes: the first one
\* inserted among those with the id
Matched(task_id) ==
    LET hits == { t \in tasks : t.id = task_id } IN
    { t \in hits : \A u \in hits : t.oid[2] <= u.oid[2] }

\* PATCH /tasks/{task_id}/status (404 and no effect when nothing matches)
update_task_status(task_id, status) ==
    /\ api.updates < MaxUpdates
    /\ api' = [api EXCEPT !.updates = @ + 1]
    /\ tasks' = (tasks \ Matched(task_id)) \cup
            { [ t EXCEPT !.status = status,
                         !.completed_at = IF status = "completed"
                                          THEN "timestamp" ELSE None ] :
              t \in Matched(task_id) }
    /\ UNCHANGED <<patients, extracted_data, agent_logs, run, faults>>

(* ----------------------------- get_overview ----------------------------- *)

\* the windows and thresholds of the aggregation.  Optional numbers are
\* sequences (<<>> for None, <<n>> for n), readmission_risk is in hundredths,
\* an average is the pair <<sum, count>>
ThroughputDays == 30
TrendDays == 14
MovingWindow == 7
ThroughputTarget == 10
HighRisk == 70

DischargeStatuses == {"pending", "in_progress", "ready", "completed", "blocked"}
TaskStatuses == {"pending", "in_progress", "completed", "failed"}
TaskCategories == {"medical", "operational", "financial"}
TaskPriorities == {"low", "medium", "high", "critical"}

\* sum of f[x] for x in the finite set S
RECURSIVE SumOf(_, _)
SumOf(f, S) ==
    IF S = {} THEN 0
    ELSE LET x == CHOOSE y \in S : TRUE IN f[x] + SumOf(f, S \ {x})

\* sum(values) / len(values) if values else None
Average(f, S) == IF S = {} THEN <<>> ELSE <<SumOf(f, S), Cardinality(S)>>

\* the normalisation of a datetime field: a string that does not parse
\* becomes None
Normalized(v) == IF IsTime(v) THEN v ELSE NoTime

\* a datetime without tzinfo cannot be subtracted from `now`
Aware(v) == ~Get(v, "naive", FALSE)

\* Patient(**p) validates: the find filter asks for mrn, created_at and
\* updated_at may not be None, discharge_status must be of the enum
ValidPatient(p) ==
    /\ p.has_mrn
    /\ IsTime(Normalized(p.created_at))
    /\ IsTime(Normalized(p.updated_at))
    /\ p.discharge_status \in DischargeStatuses

\* `patients`: the valid records, by id, with their datetime fields normalised
LoadedPatients(raw_patients) ==
    [ p \in { q \in DOMAIN raw_patients : ValidPatient(raw_patients[q]) } |->
        [ raw_patients[p] EXCEPT
            !.expected_discharge_at = Normalized(@) ] ]

\* Task(**t) validates
ValidTask(t) ==
    /\ "title" \in DOMAIN t
    /\ Get(t, "category", None) \in TaskCategories
    /\ Get(t, "priority", None) \in TaskPriorities
    /\ t.status \in TaskStatuses
    /\ IsTime(Normalized(t.created_at))

\* `tasks`: the valid ones among those found for the loaded patients
LoadedTasks(raw_tasks, patient_ids) ==
    { t \in raw_tasks : t.patient_id \in patient_ids /\ ValidTask(t) }

\* expected_discharge_at lies within the next 24 hours
Within24h(p, now) ==
    /\ IsTime(p.expected_discharge_at)
    /\ Aware(p.expected_discharge_at)
    /\ p.expected_discharge_at.day - now.day \in {0, 1}

\* (now - p.created_at) in days; created_at is a datetime for every loaded
\* patient
LosDays(p, now) == now.day - p.created_at.day

OverviewKpis(ps, now) ==
    LET ids == DOMAIN ps IN
    [ current_inpatients |->
          Cardinality({ p \in ids : ps[p].discharge_status # "completed" }),
      pending_discharges |->
          Cardinality({ p \in ids : ps[p].discharge_status \in {"in_progress", "ready"} }),
      avg_readiness_score |->
          LET scored == { p \in ids : Len(ps[p].readiness_score) > 0 } IN
          Average([ p \in scored |-> ps[p].readiness_score[1] ], scored),
      avg_length_of_stay_days |->
          Average([ p \in ids |-> LosDays(ps[p], now) ], ids),
      expected_discharges_24h |->
          Cardinality({ p \in ids : Within24h(ps[p], now) }),
      high_readmission_risk |->
          Cardinality({ p \in ids :
              \/ Len(ps[p].readmission_risk) > 0 /\ ps[p].readmission_risk[1] >= HighRisk
              \/ ps[p].readmission_risk_level = "high" }) ]

\* throughput_map.get(d, 0)
Completions(ps, d) ==
    Cardinality({ p \in DOMAIN ps :
        ps[p].discharge_status = "completed" /\ ps[p].updated_at.day = d })

\* the i-th of the last 30 days, oldest first
ThroughputDate(i, now) == now.day - (ThroughputDays - i)

Throughput(ps, now) ==
    [ i \in 1..ThroughputDays |->
        LET first == IF i > MovingWindow THEN i - MovingWindow + 1 ELSE 1
            window == first..i
        IN  [ date |-> ThroughputDate(i, now),
              actual |-> Completions(ps, ThroughputDate(i, now)),
              target |-> ThroughputTarget,
              movingAvg |->
                  Average([ j \in window |-> Completions(ps, ThroughputDate(j, now)) ],
                          window) ] ]

TaskTrend(ts, now) ==
    [ i \in 1..TrendDays |->
        LET d == now.day - (TrendDays - i)
            created == { t \in ts : t.created_at.day = d }
        IN  [ date |-> d,
              completed |-> Cardinality({ t \in created : t.status = "completed" }),
              outstanding |-> Cardinality({ t \in created : t.status # "completed" }) ] ]

DelayReasons(ps, now) ==
    LET delayed == { p \in DOMAIN ps : ps[p].delay_reason # None } IN
    [ reason \in { ps[p].delay_reason : p \in delayed } |->
        LET with == { p \in delayed : ps[p].delay_reason = reason } IN
        [ count |-> Cardinality(with),
          avgDelayDays |-> Average([ p \in with |-> LosDays(ps[p], now) ], with) ] ]

\* occupancy is the pair <<100 * count, max_count>>
OccupancyByWard(ps, now) ==
    LET warded == { p \in DOMAIN ps : ps[p].ward # None }
        InWard(w) == { p \in warded : ps[p].ward = w }
        wards == { ps[p].ward : p \in warded }
    IN  [ w \in wards |->
            [ occupancy |->
                  << 100 * Cardinality(InWard(w)),
                     CHOOSE m \in { Cardinality(InWard(v)) : v \in wards } :
                         \A v \in wards : Cardinality(InWard(v)) <= m >>,
              expected24h |->
                  Cardinality({ p \in InWard(w) : Within24h(ps[p], now) }) ] ]

PatientSummaries(ps, ts, now) ==
    [ p \in DOMAIN ps |->
        [ readinessScore |-> ps[p].readiness_score,
          pendingTasks |->
              Cardinality({ t \in ts : t.patient_id = p /\ t.status # "completed" }),
          lastAdmission |-> ps[p].created_at,
          dischargeStatus |-> ps[p].discharge_status,
          delayReason |-> ps[p].delay_reason,
          losDays |-> LosDays(ps[p], now),
          riskLevel |-> ps[p].readmission_risk_level ] ]

\* a variant that cannot aggregate a patient whose tasks are still being
\* written
OverviewRaises_on_generated(ps) ==
    \E p \in DOMAIN ps : ps[p].tasks_generated \/ ps[p].extraction_completed

\* the subtraction of a datetime without tzinfo from `now` raises, outside
\* of any inner handler, and the request answers 500
OverviewRaises(ps) == \E p \in DOMAIN ps : ~Aware(ps[p].created_at)

OverviewResponse(ps, ts, now) ==
    IF OverviewRaises(ps)
    THEN [ status_code |-> 500 ]
    ELSE [ status_code |-> 200,
           kpis |-> OverviewKpis(ps, now),
           throughput |-> Throughput(ps, now),
           taskTrend |-> TaskTrend(ts, now),
           delayReasons |-> DelayReasons(ps, now),
           occupancyByWard |-> OccupancyByWard(ps, now),
           patients |-> PatientSummaries(ps, ts, now) ]

\* one request: `now` and the patients are read first, the tasks of these
\* patients at the second await; the response is computed from the two.
\* api.response is the answer to the last request, api.previous the answer
\* to the one before; `limit` is the number of requests of the behaviour

ov_patients(limit) ==
    /\ api.overviews < limit
    /\ api.ov.pc = "idle"
    /\ api' = [ api EXCEPT !.overviews = @ + 1,
                           !.ov = [ pc |-> "tasks",
                                    now |-> Clock,
                                    patients |-> LoadedPatients(patients) ] ]
    /\ UNCHANGED <<patients, extracted_data, tasks, agent_logs, run, faults>>

\* a variant that keeps its counters between requests: the count of
\* inpatients starts from the one of the last answer
ov_tasks_accumulating ==
    /\ api.ov.pc = "tasks"
    /\ LET response == OverviewResponse(api.ov.patients,
                                        LoadedTasks(tasks, DOMAIN api.ov.patients),
                                        api.ov.now)
       IN  api' = [ api EXCEPT
                      !.ov = [ pc |-> "idle" ],
                      !.response =
                          IF response.status_code = 200 /\ api.response.status_code = 200
                          THEN [ response EXCEPT !.kpis.current_inpatients =
                                     @ + api.response.kpis.current_inpatients ]
                          ELSE response,
                      !.previous = api.response ]
    /\ UNCHANGED <<patients, extracted_data, tasks, agent_logs, run, faults>>

ov_tasks ==
    /\ api.ov.pc = "tasks"
    /\ api' = [ api EXCEPT !.ov =
                  [ pc |-> "idle" ],
                !.response =
                  OverviewResponse(api.ov.patients,
                                   LoadedTasks(tasks, DOMAIN api.ov.patients),
                                   api.ov.now),
                !.previous = api.response ]
    /\ UNCHANGED <<patients, extracted_data, tasks, agent_logs, run, faults>>

(* ------------------------- run_extraction_agent ------------------------- *)

\* variant of AfterFind without the early return
AfterFind_no_return(found) == "ea_log_start"

\* `if not patient: ... return`
AfterFind(found) == IF found THEN "ea_log_start" ELSE "done"

\* variant of ea_find that appends an AgentLog entry before the early return
ea_find_logged(r) ==
    /\ run[r].pc = "ea_find"
    /\ IF run[r].patient_id \in PatientIds
       THEN /\ run' = Set(r, [pc |-> "ea_log_start"])
            /\ UNCHANGED <<patients, extracted_data, tasks, agent_logs, faults, api>>
       ELSE Logged(r, "extraction_agent", "extraction_failed", "error",
                   [pc |-> "done"])

\* patient = await db.patients.find_one({"id": patient_id})
ea_find(r) ==
    /\ run[r].pc = "ea_find"
    /\ run' = Set(r, [pc |-> AfterFind(run[r].patient_id \in PatientIds)])
    /\ UNCHANGED <<patients, extracted_data, tasks, agent_logs, faults, api>>

\* patient['mrn'] raises for a record without mrn (and for None)
MrnRaises(patient_id) ==
    patient_id \notin PatientIds \/ ~patients[patient_id].has_mrn

\* log_agent_action(... "start_extraction" ... patient['mrn'] ...)
ea_log_start(r) ==
    /\ run[r].pc = "ea_log_start"
    /\ IF MrnRaises(run[r].patient_id)
       THEN /\ run' = Set(r, [pc |-> "eh_insert"])
            /\ UNCHANGED <<patients, extracted_data, tasks, agent_logs, faults, api>>
       ELSE \/ Logged(r, "extraction_agent", "start_extraction", None,
                      [pc |-> "ea_extract"])
            \/ WriteFails(r, [pc |-> "eh_insert"])

\* extracted_data = await run_playwright_mcp_extraction(...), then the
\* validity check that substitutes the static snapshot
ea_extract(r) ==
    /\ run[r].pc = "ea_extract"
    /\ \E reply \in ExtractionReplies :
          run' = Set(r, [ pc |-> "ea_insert", ext |-> reply,
                          extracted |-> ValidatedExtraction(
                                            run_playwright_mcp_extraction(reply)) ])
    /\ UNCHANGED <<patients, extracted_data, tasks, agent_logs, faults, api>>

\* await db.extracted_data.insert_one(doc) succeeds
InsertedExtraction(r, extracted, next) ==
    /\ StoreAnswers(TRUE)
    /\ extracted_data' = Append(extracted_data,
            ExtractionDoc(<<r, run[r].seq>>, run[r].patient_id, extracted))
    /\ run' = Set(r, [pc |-> next, seq |-> run[r].seq + 1])
    /\ UNCHANGED <<patients, tasks, agent_logs>>

\* await db.patients.update_one(... $set fields) succeeds
UpdatedPatient(r, fields, next) ==
    /\ StoreAnswers(TRUE)
    /\ patients' = UpdatedPatients(run[r].patient_id, fields)
    /\ run' = Set(r, [pc |-> next])
    /\ UNCHANGED <<extracted_data, tasks, agent_logs>>

\* await db.extracted_data.insert_one(extraction_doc)
ea_insert(r) ==
    /\ run[r].pc = "ea_insert"
    /\ \/ InsertedExtraction(r, run[r].extracted, "ea_update")
       \/ WriteFails(r, [pc |-> "eh_insert"])

\* extraction_completed = True
ea_update(r) ==
    /\ run[r].pc = "ea_update"
    /\ \/ UpdatedPatient(r, [extraction_completed |-> TRUE], "ea_log_complete")
       \/ WriteFails(r, [pc |-> "eh_insert"])

\* log_agent_action(... "extraction_complete" ...)
ea_log_complete(r) ==
    /\ run[r].pc = "ea_log_complete"
    /\ \/ Logged(r, "extraction_agent", "extraction_complete", None, [pc |-> "ea_verify"])
       \/ WriteFails(r, [pc |-> "eh_insert"])

\* variant of AfterVerify that gives up when verification did not answer 200
AfterVerify_aborting(outcome, next) ==
    IF outcome = "status_200" THEN next ELSE "done"

\* every outcome of the verification call is logged and swallowed
AfterVerify(outcome, next) == next

\* the POST to /api/v1/discharge/verify inside its own try/except
Verified(r, next) ==
    /\ \E outcome \in VerifyOutcomes :
          run' = Set(r, [ pc |-> AfterVerify(outcome, next), verify |-> outcome,
                          verifies |-> run[r].verifies + 1 ])
    /\ UNCHANGED <<patients, extracted_data, tasks, agent_logs, faults, api>>

ea_verify(r) ==
    /\ run[r].pc = "ea_verify"
    /\ Verified(r, "ea_call_tg")

\* await run_task_generator_agent(patient_id), called from `ret`
CalledTaskGenerator(r, ret) ==
    /\ run' = Set(r, [ pc |-> "tg_find", ret |-> ret,
                       tg_calls |-> run[r].tg_calls + 1 ] @@ NoLocals)
    /\ UNCHANGED <<patients, extracted_data, tasks, agent_logs, faults, api>>

ea_call_tg(r) ==
    /\ run[r].pc = "ea_call_tg"
    /\ CalledTaskGenerator(r, "main")

\* except Exception as e: insert the error_fallback snapshot
eh_insert(r) ==
    /\ run[r].pc = "eh_insert"
    /\ \/ InsertedExtraction(r, ErrorFallback, "eh_update")
       \/ WriteFails(r, [pc |-> "eh_fail_log"])

eh_update(r) ==
    /\ run[r].pc = "eh_update"
    /\ \/ UpdatedPatient(r, [extraction_completed |-> TRUE], "eh_log")
       \/ WriteFails(r, [pc |-> "eh_fail_log"])

\* log_agent_action(... "extraction_failed_fallback_used" ...): no error=
eh_log(r) ==
    /\ run[r].pc = "eh_log"
    /\ \/ Logged(r, "extraction_agent", "extraction_failed_fallback_used",
                 None, [pc |-> "eh_verify"])
       \/ WriteFails(r, [pc |-> "eh_fail_log"])

eh_verify(r) ==
    /\ run[r].pc = "eh_verify"
    /\ Verified(r, "eh_call_tg")

eh_call_tg(r) ==
    /\ run[r].pc = "eh_call_tg"
    /\ CalledTaskGenerator(r, "handler")

\* except Exception as fallback_error: log_agent_action(... error=str(e));
\* nothing catches a failure of this write
eh_fail_log(r) ==
    /\ run[r].pc = "eh_fail_log"
    /\ \/ Logged(r, "extraction_agent", "extraction_failed", "error", [pc |-> "done"])
       \/ WriteFails(r, [pc |-> "escaped"])

(* ----------------------- run_task_generator_agent ----------------------- *)

\* where control is after run_task_generator_agent returns or raises
Return(r, raised) ==
    IF raised
    THEN CASE run[r].ret = "top" -> "escaped"
           [] run[r].ret = "main" -> "eh_insert"
           [] run[r].ret = "handler" -> "eh_fail_log"
    ELSE "done"

\* the function returns (or raises): its frame is dropped
Leave(r, raised) == [pc |-> Return(r, raised)] @@ NoLocals

\* `if not patient or not extracted_data: raise`
MissingData(patient_id, xd) ==
    patient_id \notin PatientIds \/ xd = NoValue

\* patient = find_one(...); extracted_data = find_one(...)
tg_find(r) ==
    /\ run[r].pc = "tg_find"
    /\ LET xd == FindExtracted(run[r].patient_id) IN
       run' = Set(r, IF MissingData(run[r].patient_id, xd)
                     THEN [pc |-> "hf_insert", verify |-> "none"]
                     ELSE [pc |-> "tg_log_start", xd |-> xd, verify |-> "none"])
    /\ UNCHANGED <<patients, extracted_data, tasks, agent_logs, faults, api>>

\* log_agent_action(... "start_task_generation" ...)
tg_log_start(r) ==
    /\ run[r].pc = "tg_log_start"
    /\ \/ Logged(r, "task_generator_agent", "start_task_generation", None, [pc |-> "tg_llm"])
       \/ WriteFails(r, [pc |-> "hf_insert"])

\* patient['name'] / patient['mrn'] in the prompt raise KeyError inside the
\* Gemini try block, before the model is called
PromptRaises(patient_id) == MrnRaises(patient_id)

\* the replies the Gemini block can end with for this patient
RepliesFor(patient_id) ==
    IF PromptRaises(patient_id) THEN {[kind |-> "prompt_error"]}
    ELSE ModelReplies

\* the Gemini block, the rule-based fallback and the essential-task check
tg_llm(r) ==
    /\ run[r].pc = "tg_llm"
    /\ \E reply \in RepliesFor(run[r].patient_id) :
          run' = Set(r, IF SynthesisRaises(reply)
                        THEN [pc |-> "hf_insert", reply |-> reply]
                        ELSE [pc |-> "tg_insert", reply |-> reply, k |-> 1,
                              list |-> SynthesizedTasks(reply, run[r].xd)])
    /\ UNCHANGED <<patients, extracted_data, tasks, agent_logs, faults, api>>

\* await db.tasks.insert_one(task_doc) succeeds
InsertedTask(r, n, task_data, next) ==
    /\ StoreAnswers(TRUE)
    /\ tasks' = tasks \cup
            { TaskDoc(<<r, run[r].seq>>, run[r].patient_id, n, task_data) }
    /\ run' = Set(r, next @@ [seq |-> run[r].seq + 1])
    /\ UNCHANGED <<patients, extracted_data, agent_logs>>

\* one turn of `for task_data in tasks: ... insert_one(task_doc)`
tg_insert(r) ==
    /\ run[r].pc = "tg_insert"
    /\ \/ InsertedTask(r, Len(run[r].list), run[r].list[run[r].k],
              [ pc |-> IF run[r].k = Len(run[r].list) THEN "tg_update"
                       ELSE "tg_insert",
                k |-> run[r].k + 1 ])
       \/ WriteFails(r, [pc |-> "hf_insert"])

\* tasks_generated = True and the derived discharge_status
tg_update(r) ==
    /\ run[r].pc = "tg_update"
    /\ \/ UpdatedPatient(r, [ tasks_generated |-> TRUE,
                              discharge_status |-> DerivedStatus(run[r].xd) ],
                         "tg_log_done")
       \/ WriteFails(r, [pc |-> "hf_insert"])

\* log_agent_action(... "tasks_generated" ...), then the function returns
tg_log_done(r) ==
    /\ run[r].pc = "tg_log_done"
    /\ \/ Logged(r, "task_generator_agent", "tasks_generated", None,
                 Leave(r, FALSE))
       \/ WriteFails(r, [pc |-> "hf_insert"])

\* hard fallback: one turn of `for task_data in fallback_tasks`
hf_insert(r) ==
    /\ run[r].pc = "hf_insert"
    /\ \/ InsertedTask(r, Len(fallback_tasks), fallback_tasks[run[r].hk],
              [ pc |-> IF run[r].hk = Len(fallback_tasks) THEN "hf_update"
                       ELSE "hf_insert",
                hk |-> run[r].hk + 1 ])
       \/ WriteFails(r, [pc |-> "hf_log"])

\* tasks_generated = True, discharge_status = "pending"
hf_update(r) ==
    /\ run[r].pc = "hf_update"
    /\ \/ UpdatedPatient(r, [ tasks_generated |-> TRUE,
                              discharge_status |-> "pending" ], "hf_log")
       \/ WriteFails(r, [pc |-> "hf_log"])

\* log_agent_action(... "task_generation_failed", error=str(e) ...) after
\* the inner try/except: a failure of this write leaves the function
hf_log(r) ==
    /\ run[r].pc = "hf_log"
    /\ \/ Logged(r, "task_generator_agent", "task_generation_failed", "error",
                 Leave(r, FALSE))
       \/ WriteFails(r, Leave(r, TRUE))

(* ---------------------------- specification ----------------------------- *)

Next ==
    \/ \E r \in RunIds :
           \/ \E p \in PatientIds : mark_patient_ready(r, p)
           \/ \E p \in PatientIds : trigger_extraction(r, p)
           \/ \E p \in PatientIds : generate_tasks(r, p)
           \/ extraction_of_unknown(r)
           \/ ea_find(r) \/ ea_log_start(r) \/ ea_extract(r) \/ ea_insert(r)
           \/ ea_update(r) \/ ea_log_complete(r) \/ ea_verify(r) \/ ea_call_tg(r)
           \/ eh_insert(r) \/ eh_update(r) \/ eh_log(r) \/ eh_verify(r)
           \/ eh_call_tg(r) \/ eh_fail_log(r)
           \/ tg_find(r) \/ tg_log_start(r) \/ tg_llm(r) \/ tg_insert(r)
           \/ tg_update(r) \/ tg_log_done(r)
           \/ hf_insert(r) \/ hf_update(r) \/ hf_log(r)

Spec == Init /\ [][Next]_vars

(* ------------- the pipeline with endpoint requests in between ------------ *)

\* as Init, in behaviours where the store answers every write
ApiInit ==
    /\ Fresh \/ \E p \in PatientIds : EarlierRun(p)
    /\ run = [r \in RunIds |-> IdleRun]
    /\ faults = MaxFaults
    /\ api = NoRequests

\* a step of an agent invocation or a request to an endpoint; without a
\* failing write the second handler of run_extraction_agent is never entered
ApiNext ==
    \/ \E r \in RunIds :
           \/ \E p \in PatientIds : mark_patient_ready(r, p)
           \/ \E p \in PatientIds : trigger_extraction(r, p)
           \/ \E p \in PatientIds : generate_tasks(r, p)
           \/ extraction_of_unknown(r)
           \/ ea_find(r) \/ ea_log_start(r) \/ ea_extract(r) \/ ea_insert(r)
           \/ ea_update(r) \/ ea_log_complete(r) \/ ea_verify(r) \/ ea_call_tg(r)
           \/ eh_insert(r) \/ eh_update(r) \/ eh_log(r) \/ eh_verify(r)
           \/ eh_call_tg(r)
           \/ tg_find(r) \/ tg_log_start(r) \/ tg_llm(r) \/ tg_insert(r)
           \/ tg_update(r) \/ tg_log_done(r)
           \/ hf_insert(r) \/ hf_update(r) \/ hf_log(r)
    \/ \E task_id \in TaskIdInputs, status \in StatusInputs :
             update_task_status(task_id, status)
    \/ ov_patients(MaxOverviews)
    \/ ov_tasks

ApiSpec == ApiInit /\ [][ApiNext]_vars

(* --------------------- get_overview on a fixed store --------------------- *)

SnapshotIds == {"p1", "p2", "p3"}

\* a stored datetime string that does not parse
Malformed == [ malformed |-> TRUE ]

\* records of the patients collection: one that is in the discharge flow,
\* in each status the aggregation tells apart, updated and created today or
\* earlier, with and without a readiness score
FirstPatients ==
    { [ discharge_status |-> s, updated_at |-> [day |-> u],
        created_at |-> [day |-> c], readiness_score |-> rs ] @@ NewPatient(TRUE) :
        s \in {"pending", "ready", "completed"},
        u \in {0, -3},
        c \in {-3, -5},
        rs \in {<<>>, <<80>>} }

\* and a second one: without mrn, completed three days ago in a ward, in
\* another ward, or with a created_at or an updated_at that does not parse
SecondPatients ==
    { NewPatient(FALSE),
      [ discharge_status |-> "completed", updated_at |-> [day |-> -3],
        created_at |-> [day |-> -9], readiness_score |-> <<60>>,
        ward |-> "A" ] @@ NewPatient(TRUE),
      [ ward |-> "B" ] @@ NewPatient(TRUE),
      [ created_at |-> Malformed ] @@ NewPatient(TRUE),
      [ discharge_status |-> "completed", updated_at |-> [day |-> -3],
        created_at |-> Malformed, ward |-> "A" ] @@ NewPatient(TRUE),
      [ updated_at |-> Malformed, ward |-> "B" ] @@ NewPatient(TRUE) }

\* and a third one: without mrn, in a ward and expected to leave tomorrow,
\* in a ward with a delay, or with a created_at stored without an offset
ThirdPatients ==
    { NewPatient(FALSE),
      [ ward |-> "A", expected_discharge_at |-> [day |-> 1],
        discharge_status |-> "in_progress" ] @@ NewPatient(TRUE),
      [ ward |-> "A", delay_reason |-> "Pending PT clearance",
        created_at |-> [day |-> -7] ] @@ NewPatient(TRUE),
      [ created_at |-> [day |-> -2, naive |-> TRUE] ] @@ NewPatient(TRUE) }

\* records of the tasks collection: tasks as Task Synthesis stores them, one
\* completed since, one with a created_at that does not parse, and one stored
\* from a model object whose category is none of TaskCategory
SnapshotTasks ==
    { TaskDoc(<<0, 1>>, "p1", 0, WoundCare),
      [ status |-> "completed", completed_at |-> "timestamp",
        created_at |-> [day |-> -2] ] @@ TaskDoc(<<0, 2>>, "p1", 1, MedRec),
      TaskDoc(<<0, 3>>, "p2", 0, FollowUp),
      [ created_at |-> Malformed ] @@ TaskDoc(<<0, 4>>, "p1", 2, FollowUp),
      TaskDoc(<<0, 5>>, "p1", 3, Task("Discharge Teaching", "nursing", "high")) }

OverviewInit ==
    /\ \E first \in FirstPatients, second \in SecondPatients, third \in ThirdPatients :
          patients = [ p \in SnapshotIds |->
                         IF p = "p1" THEN first ELSE IF p = "p2" THEN second ELSE third ]
    /\ tasks \in SUBSET SnapshotTasks
    /\ extracted_data = <<>>
    /\ agent_logs = {}
    /\ run = [r \in RunIds |-> IdleRun]
    /\ faults = 0
    /\ api = NoRequests

OverviewNext == ov_patients(MaxSnapshotReads) \/ ov_tasks

OverviewSpec == OverviewInit /\ [][OverviewNext]_vars

(* ------------ the list-building steps of Task Synthesis alone ------------ *)

\* contents an ExtractedData record can have when run_task_generator_agent
\* reads it: every combination of empty and non-empty pending lists, billing
\* with a positive, a zero and a missing amount, and the three snapshots
ExtractedContents ==
    { [ pharmacy_pending |-> ph, radiology_pending |-> ra,
        billing_pending |-> bi, discharge_blockers |-> bl,
        extraction_method |-> "api_service_automation" ] :
        ph \in {<<>>, <<"Discharge medications">>},
        ra \in {<<>>, <<"MRI">>},
        bi \in {[amount |-> 0], [amount |-> 300], [insurance |-> "none"]},
        bl \in {<<>>, <<"Awaiting clearance">>} }
    \cup {PlaywrightFallback, StaticFallback, ErrorFallback}

\* task lists the model can return: the arrays of objects among ModelArrays
\* and some more with two elements
TaskLists ==
    { a \in ModelArrays : \A k \in DOMAIN a : IsDict(a[k]) }
    \cup { <<PatientEducation, WoundCare>>,
           <<WoundCare, ArrangeTransportation>>,
           <<ArrangeTransportation, ArrangeTransportation>>,
           <<[category |-> "medical", priority |-> "low"], MedRec>> }

\* the Gemini block has left `tasks`; nothing else has run
SynthInit ==
    /\ patients = [p \in PatientIds |-> NewPatient(TRUE)]
    /\ extracted_data = <<>>
    /\ tasks = {}
    /\ agent_logs = {}
    /\ faults = 0
    /\ api = NoRequests
    /\ \E r \in RunIds, a \in TaskLists, xd \in ExtractedContents :
          run = [ q \in RunIds |->
                    IF q = r
                    THEN [ pc |-> "fn_parsed", entry |-> "task_generator",
                           patient_id |-> CHOOSE p \in PatientIds : TRUE,
                           xd |-> xd,
                           reply |-> [kind |-> "json_array", items |-> a],
                           list |-> a, hist |-> <<>> ] @@ IdleRun
                    ELSE IdleRun ]

\* `if len(tasks) < 3:` and the rule-based appends
fn_rule_based(r) ==
    /\ run[r].pc = "fn_parsed"
    /\ run' = Set(r, [ pc |-> "fn_ruled",
                       list |-> WithRuleBased(run[r].list, run[r].xd) ])
    /\ UNCHANGED <<patients, extracted_data, tasks, agent_logs, faults, api>>

\* the essential-task check, run once and then once more on its own result;
\* hist keeps the list each application started from
fn_essential(r) ==
    /\ run[r].pc \in {"fn_ruled", "fn_checked"}
    /\ run' = Set(r, [ pc |-> IF run[r].pc = "fn_ruled" THEN "fn_checked"
                              ELSE "fn_rechecked",
                       list |-> WithEssential(run[r].list),
                       hist |-> Append(run[r].hist, run[r].list) ])
    /\ UNCHANGED <<patients, extracted_data, tasks, agent_logs, faults, api>>

SynthNext == \E r \in RunIds : fn_rule_based(r) \/ fn_essential(r)

SynthSpec == SynthInit /\ [][SynthNext]_vars

(* ------------------------- what a run has done -------------------------- *)

\* positions in extracted_data of the records run r inserted
ExtractedBy(r) == { k \in DOMAIN extracted_data : extracted_data[k].oid[1] = r }

\* the Task records run r inserted
TasksBy(r) == { t \in tasks : t.oid[1] = r }

\* the AgentLog entries run r appended
LogsBy(r) == { l \in agent_logs : l.oid[1] = r }

\* the Task set of a patient: what find({"patient_id": ...}) returns
TasksOf(patient_id) == { t \in tasks : Get(t, "patient_id", None) = patient_id }

\* r is a run of the pipeline (run_extraction_agent) for an existing patient
PipelineRun(r) ==
    run[r].entry = "extraction" /\ run[r].patient_id \in PatientIds

\* r is a run of run_extraction_agent for an id that matches no record
UnknownRun(r) ==
    run[r].entry = "extraction" /\ run[r].patient_id \notin PatientIds

\* the four data fields of an ExtractedData record
Content(doc) ==
    << doc.pharmacy_pending, doc.radiology_pending, doc.billing_pending,
       doc.discharge_blockers >>

(* -------------------------------- C1 ------------------------------------ *)

\* C1: every run of the Extraction Stage on an existing patient that has
\* returned has added exactly one ExtractedData record, that record carries
\* a provenance tag, and the patient's extraction_completed is true -- also
\* when a step after the insert raised.  (Stated for the runs whose error
\* handler itself completed: returned, and no "extraction_failed" entry.)
C1_ExactlyOneRecord ==
    \A r \in RunIds :
        ( /\ PipelineRun(r)
          /\ run[r].pc = "done"
          /\ \A l \in LogsBy(r) : l.action # "extraction_failed" )
        => /\ Cardinality(ExtractedBy(r)) = 1
           /\ \A k \in ExtractedBy(r) : extracted_data[k].extraction_method # None
           /\ patients[run[r].patient_id].extraction_completed

(* -------------------------------- C2 ------------------------------------ *)

\* C2 as written: after any run of Task Synthesis for an existing patient,
\* the patient's Task set has at least 5 records.
C2_AtLeastFive ==
    \A r \in RunIds :
        ( /\ run[r].patient_id \in PatientIds
          /\ run[r].tg_calls >= 1
          /\ Ended(r)
          /\ ~run[r].write_failed )
        => Cardinality(TasksOf(run[r].patient_id)) >= 5

\* C2 amended: a run of Task Synthesis in which no store write fails
\* inserts at least 3 Task records.
C2_AtLeastThree ==
    \A r \in RunIds :
        ( /\ run[r].patient_id \in PatientIds
          /\ run[r].tg_calls >= 1
          /\ Ended(r)
          /\ ~run[r].write_failed )
        => Cardinality(TasksBy(r)) >= 3

\* a run that ended with exactly 3 tasks, all of them from the model reply
C2_Witness ==
    \E r \in RunIds :
        /\ run[r].patient_id \in PatientIds
        /\ run[r].tg_calls >= 1
        /\ Ended(r)
        /\ ~run[r].write_failed
        /\ Cardinality(TasksBy(r)) = 3
        /\ Cardinality(TasksOf(run[r].patient_id)) = 3

(* -------------------------------- C3 ------------------------------------ *)

\* C3: after any sequence of Task Synthesis runs for a patient, with any
\* model reply, the patient's Task set holds exactly one task titled
\* "Patient Education" and exactly one titled "Arrange Transportation".
C3_EssentialOnce ==
    \A r \in RunIds :
        ( /\ run[r].patient_id \in PatientIds
          /\ run[r].tg_calls >= 1
          /\ Ended(r)
          /\ ~run[r].write_failed )
        => \A title \in {"Patient Education", "Arrange Transportation"} :
              Cardinality({ t \in TasksOf(run[r].patient_id) :
                              Title(t) = title }) = 1

(* -------------------------------- C4 ------------------------------------ *)

\* C4: every pipeline run for an existing patient ends, for every outcome of
\* the external calls (extraction, verification, model), with
\* tasks_generated true and a non-empty Task set for that patient.
C4_EndsWithTasks ==
    \A r \in RunIds :
        (PipelineRun(r) /\ Ended(r) /\ ~run[r].write_failed)
        => /\ patients[run[r].patient_id].tasks_generated
           /\ TasksOf(run[r].patient_id) # {}

(* -------------------------------- C5 ------------------------------------ *)

C6_MappingPersisted ==
    \A r \in RunIds :
        ( /\ PipelineRun(r)
          /\ run[r].ext.kind = "json_mapping"
          /\ ~run[r].write_failed )
        => \A k \in ExtractedBy(r) :
              Content(extracted_data[k]) =
                  Content(BuildExtracted(ParsedReply(run[r].ext)))

(* -------------------------------- C7 ------------------------------------ *)

\* C7: in every pipeline run for an existing patient the steps come in the
\* order ExtractedData persisted, verification attempted, Task Synthesis
\* invoked; after a verification attempt, whatever its outcome, the only
\* thing the run does next is invoke Task Synthesis; a run in which no store
\* write fails has done all three.
C7_Order ==
    \A r \in RunIds :
        PipelineRun(r)
        => /\ run[r].verifies <= Cardinality(ExtractedBy(r))
           /\ run[r].tg_calls <= run[r].verifies
           /\ \/ run[r].tg_calls = run[r].verifies
              \/ /\ run[r].verifies = run[r].tg_calls + 1
                 /\ run[r].pc \in {"ea_call_tg", "eh_call_tg"}
           /\ (Ended(r) /\ ~run[r].write_failed)
              => /\ Cardinality(ExtractedBy(r)) = 1
                 /\ run[r].verifies = 1
                 /\ run[r].tg_calls = 1

\* Task Synthesis has just been invoked after a verification call that
\* failed in transport, on data that came from the static snapshot
C7_Witness ==
    \E r \in RunIds :
        /\ PipelineRun(r)
        /\ run[r].pc = "tg_find"
        /\ run[r].verify = "transport_error"
        /\ run[r].tg_calls = 1
        /\ \E k \in ExtractedBy(r) :
              extracted_data[k].extraction_method = "fallback_static"

(* -------------------------------- C8 ------------------------------------ *)

\* C8: no run of run_extraction_agent or run_task_generator_agent lets an
\* exception escape to its caller, whatever fails, AgentLog writes included.
C8_NoEscape == \A r \in RunIds : run[r].pc # "escaped"

(* -------------------------------- C9 ------------------------------------ *)

\* C9: a run of run_extraction_agent for an id that matches no Patient
\* record returns at its first step, and no step of it inserts an
\* ExtractedData or Task record, modifies a Patient record, attempts
\* verification or invokes Task Synthesis.
C9_UnknownIdNoEffect ==
    [][ \A r \in RunIds :
          (UnknownRun(r) /\ run'[r] # run[r])
          => /\ run'[r].pc = "done"
             /\ patients' = patients
             /\ extracted_data' = extracted_data
             /\ tasks' = tasks
             /\ run'[r].verifies = 0
             /\ run'[r].tg_calls = 0 ]_vars

\* a run for an unknown id has returned and the records of the earlier run
\* are all still there
C9_Witness ==
    \E r \in RunIds :
        /\ UnknownRun(r)
        /\ run[r].pc = "done"
        /\ Len(extracted_data) = 1
        /\ tasks # {}
        /\ ExtractedBy(r) = {}
        /\ TasksBy(r) = {}

(* -------------------------------- C10 ----------------------------------- *)

C11_DerivedStatus ==
    [][ \A r \in RunIds :
          (run[r].pc = "tg_update" /\ run'[r].pc = "tg_log_done")
          => /\ patients'[run[r].patient_id].tasks_generated
             /\ patients'[run[r].patient_id].discharge_status =
                   IF Len(Get(run[r].xd, "discharge_blockers", <<>>)) = 0
                   THEN "ready" ELSE "blocked" ]_vars

\* the update has just been made from a record that lists blockers
C11_Witness ==
    \E r \in RunIds :
        /\ run[r].pc = "tg_log_done"
        /\ Len(run[r].xd.discharge_blockers) > 0
        /\ patients[run[r].patient_id].discharge_status = "blocked"
        /\ patients[run[r].patient_id].tasks_generated

(* -------------------------------- C12 ----------------------------------- *)

\* the titles of the fixed five-item list
FallbackTitles == { Title(fallback_tasks[k]) : k \in DOMAIN fallback_tasks }

\* C12: when Task Synthesis hits total failure, also after its primary
\* logic has inserted tasks, the hard fallback inserts the fixed five-item
\* list and sets discharge_status to "pending", and the tasks the run has
\* left for the patient are exactly those five.  (Stated at the step that
\* completes the hard fallback: its Patient update, after its five inserts.)
C12_ExactlyFive ==
    [][ \A r \in RunIds :
          ( /\ run[r].pc = "hf_update"
            /\ run'[r].pc = "hf_log"
            /\ run[r].patient_id \in PatientIds
            /\ run[r].tg_calls = 1
            /\ faults' = faults )
          => /\ patients'[run[r].patient_id].discharge_status = "pending"
             /\ FallbackTitles \subseteq { Title(t) : t \in TasksBy(r) }
             /\ Cardinality(TasksBy(r)) = Len(fallback_tasks) ]_vars

(* -------------------------------- C13 ----------------------------------- *)

CountTitle(list, title) ==
    Cardinality({ k \in DOMAIN list : Title(list[k]) = title })

\* the lists an invocation's essential-task checks started from and gave
Applications(r) ==
    LET all == Append(run[r].hist, run[r].list) IN
    { <<all[i], all[i + 1]>> : i \in 1..Len(run[r].hist) }

\* C14: applying the essential-task check to its own result gives that
\* result again, and an application adds a title only when the list it
\* started from did not contain it: afterwards each essential title occurs as
\* often as before, or once when it was absent.
C14_Idempotent ==
    \A r \in RunIds :
        /\ run[r].pc = "fn_rechecked" => run[r].list = run[r].hist[2]
        /\ run[r].pc \in {"fn_checked", "fn_rechecked"}
           => \A ap \in Applications(r) :
                 \A title \in {"Patient Education", "Arrange Transportation"} :
                    CountTitle(ap[2], title) =
                       IF CountTitle(ap[1], title) > 0
                       THEN CountTitle(ap[1], title) ELSE 1

\* the check has run twice on a list that held "Patient Education" and not
\* "Arrange Transportation": one task was added, by the first run
C14_Witness ==
    \E r \in RunIds :
        /\ run[r].pc = "fn_rechecked"
        /\ CountTitle(run[r].hist[1], "Patient Education") = 1
        /\ CountTitle(run[r].hist[1], "Arrange Transportation") = 0
        /\ Len(run[r].hist[2]) = Len(run[r].hist[1]) + 1
        /\ Len(run[r].list) = Len(run[r].hist[2])

(* -------------------------------- C15 ----------------------------------- *)

\* C15: no step moves a patient's discharge_status backwards along
\* pending -> in_progress -> ready | blocked -> completed; moves between
\* blocked and ready are allowed.
C15_StatusMonotonic ==
    [][ LET rank == [ pending |-> 0, in_progress |-> 1, ready |-> 2,
                      blocked |-> 2, completed |-> 3 ] IN
        \A p \in PatientIds :
            rank[patients'[p].discharge_status]
               >= rank[patients[p].discharge_status] ]_vars

(* -------------------------------- C16 ----------------------------------- *)

C17_CompletedAtIffCompleted ==
    \A t \in tasks : (t.completed_at # None) <=> (t.status = "completed")

(* -------------------------------- C18 ----------------------------------- *)

\* C18: the ExtractedData record Task Synthesis works from is the one most
\* recently inserted for the patient, so what it derives comes from the
\* latest extraction: while the primary logic runs, the content it holds is
\* the content of the patient's last record.
C18_LatestWins ==
    \A r \in RunIds :
        ( /\ run[r].patient_id \in PatientIds
          /\ run[r].pc \in { "tg_log_start", "tg_llm", "tg_insert",
                             "tg_update", "tg_log_done" } )
        => LET hits == { k \in DOMAIN extracted_data :
                           extracted_data[k].patient_id = run[r].patient_id }
               last == CHOOSE k \in hits : \A j \in hits : j <= k
           IN  Content(run[r].xd) = Content(extracted_data[last])

(* -------------------------------- C19 ----------------------------------- *)

\* C19: a get_overview request placed at any point between the writes of
\* pipeline runs modifies no Patient, Task, ExtractedData or AgentLog
\* record at either of its steps, and answers 200 when it finishes
C19_OverviewTolerant ==
    [][ (api'.ov.pc # api.ov.pc) =>
            /\ UNCHANGED <<patients, tasks, extracted_data, agent_logs>>
            /\ (api'.ov.pc = "idle" => api'.response.status_code = 200) ]_vars

\* a request has answered 200 with a count of pending tasks that only a
\* read between the first and the last insert of a run gives: the patient had
\* no task before the run, the run is still inserting, and the summary row
\* counts some but not all of its tasks
C19_Witness ==
    \E r \in RunIds :
        /\ run[r].pc = "tg_insert"
        /\ run[r].patient_id \in PatientIds
        /\ tasks = TasksBy(r)
        /\ api.overviews = 1
        /\ api.response.status_code = 200
        /\ run[r].patient_id \in DOMAIN api.response.patients
        /\ api.response.patients[run[r].patient_id].pendingTasks > 0
        /\ api.response.patients[run[r].patient_id].pendingTasks < Len(run[r].list)
        /\ api.response.patients[run[r].patient_id].pendingTasks = Cardinality(tasks)

(* -------------------------------- C20 ----------------------------------- *)

Answered == api.overviews >= 1 /\ api.ov.pc = "idle"
Answered200 == Answered /\ api.response.status_code = 200

\* the discharge-pipeline patients of the store: the records with an mrn
PipelinePatients == { p \in DOMAIN patients : patients[p].has_mrn }

\* the stored datetime parses
Parses(v) == IsTime(v)

(* -------------------------------- C21 ----------------------------------- *)

\* C21: the throughput series has 30 points, one per day of the 30 days
\* ending today in ascending order; `actual` is the number of patients with
\* status completed whose updated_at falls on that day, and movingAvg is the
\* mean of `actual` over that day and the up to 6 days before it in the series
C21_Throughput ==
    Answered200 =>
        LET series == api.response.throughput
            Actual(d) ==
                Cardinality({ p \in PipelinePatients :
                    /\ patients[p].discharge_status = "completed"
                    /\ Parses(patients[p].updated_at)
                    /\ patients[p].updated_at.day = d })
        IN  /\ DOMAIN series = 1..30
            /\ \A i \in 1..30 :
                  /\ series[i].date = Clock.day - 30 + i
                  /\ series[i].actual = Actual(series[i].date)
                  /\ LET first == IF i > 6 THEN i - 6 ELSE 1 IN
                     series[i].movingAvg =
                         << SumOf([ j \in first..i |-> Actual(Clock.day - 30 + j) ],
                                  first..i),
                            i - first + 1 >>

(* -------------------------------- C22 ----------------------------------- *)

\* C22: the occupancy table has a row for each ward that a patient is in,
\* and the occupancy of a ward is 100 times its number of patients over the
\* number of patients of the largest ward, so that the largest ward reports
\* 100 and every value lies in (0, 100]; patients without a ward are in no row
C22_Occupancy ==
    Answered200 =>
        LET table == api.response.occupancyByWard
            warded == { p \in PipelinePatients : patients[p].ward # None }
            wards == { patients[p].ward : p \in warded }
            Count(w) == Cardinality({ p \in warded : patients[p].ward = w })
        IN  /\ DOMAIN table = wards
            /\ \A w \in wards :
                  \E largest \in wards :
                      /\ \A v \in wards : Count(v) <= Count(largest)
                      /\ table[w].occupancy[2] > 0
                      /\ table[w].occupancy[1] * Count(largest) =
                             100 * Count(w) * table[w].occupancy[2]

(* -------------------------------- C23 ----------------------------------- *)

\* C23: the answer has one summary row per discharge-pipeline patient, and
\* the pendingTasks of a row is the number of the patient's tasks whose
\* status is not completed, 0 for a patient without tasks
C23_SummaryRows ==
    Answered200 =>
        LET rows == api.response.patients IN
        /\ DOMAIN rows = PipelinePatients
        /\ \A p \in PipelinePatients :
              rows[p].pendingTasks =
                  Cardinality({ t \in TasksOf(p) : t.status # "completed" })

(* -------------------------------- C24 ----------------------------------- *)

\* C24: a patient whose created_at or updated_at does not parse is left out
\* of the computations that need that timestamp only: the patient is still
\* counted in the status KPIs, has a row in the occupancy table for its ward
\* and has a summary row
C24_MalformedCounted ==
    Answered200 =>
        LET unparsed == { p \in PipelinePatients :
                            \/ ~Parses(patients[p].created_at)
                            \/ ~Parses(patients[p].updated_at) }
        IN  /\ api.response.kpis.current_inpatients =
                  Cardinality({ p \in PipelinePatients :
                                  patients[p].discharge_status # "completed" })
            /\ \A p \in unparsed :
                  /\ p \in DOMAIN api.response.patients
                  /\ patients[p].ward # None =>
                        patients[p].ward \in DOMAIN api.response.occupancyByWard

(* -------------------------------- C25 ----------------------------------- *)

\* what the step after parsing appended to the parsed list
Appended(r) ==
    { run[r].list[k] : k \in (Len(run[r].reply.items) + 1)..Len(run[r].list) }

\* C25: the rule-based tasks are appended exactly when the parsed list has
\* fewer than 3 entries; the entries of the model stay in front, "Doctor
\* Discharge Clearance" (medical, critical) and "Nursing Discharge
\* Checklist" (operational, medium) are always among the appended tasks,
\* "Complete Pending Radiology" (medical, high) exactly when
\* radiology_pending is not empty and "Clear Pending Bills" (financial,
\* high) exactly when the billing amount is greater than 0
C25_RuleBased ==
    \A r \in RunIds :
        run[r].pc = "fn_ruled" =>
            LET parsed == run[r].reply.items
                amount == IF "amount" \in DOMAIN run[r].xd.billing_pending
                          THEN run[r].xd.billing_pending.amount ELSE 0
            IN  /\ Len(run[r].list) >= Len(parsed)
                /\ \A k \in DOMAIN parsed : run[r].list[k] = parsed[k]
                /\ (Appended(r) # {}) <=> (Len(parsed) < 3)
                /\ Len(parsed) < 3 =>
                      /\ Task("Doctor Discharge Clearance", "medical", "critical")
                             \in Appended(r)
                      /\ Task("Nursing Discharge Checklist", "operational", "medium")
                             \in Appended(r)
                      /\ Task("Complete Pending Radiology", "medical", "high")
                             \in Appended(r)
                         <=> Len(run[r].xd.radiology_pending) > 0
                      /\ Task("Clear Pending Bills", "financial", "high")
                             \in Appended(r)
                         <=> amount > 0

\* the rule-based step has run on a reply of two tasks for a record with
\* radiology pending and an amount to pay, and has appended both tasks
C25_Witness ==
    \E r \in RunIds :
        /\ run[r].pc = "fn_ruled"
        /\ Len(run[r].reply.items) = 2
        /\ Len(run[r].xd.radiology_pending) > 0
        /\ Get(run[r].xd.billing_pending, "amount", 0) > 0
        /\ Task("Complete Pending Radiology", "medical", "high") \in Appended(r)
        /\ Task("Clear Pending Bills", "financial", "high") \in Appended(r)
        /\ Len(run[r].list) >= 6

(* -------------------------------- C26 ----------------------------------- *)

\* C26: every Task record a Task Synthesis run has inserted has status
\* pending, no completed_at, deadline or assigned_to, and the patient_id of
\* the patient the run is for, whatever the objects of the model reply hold
C26_Defaulted ==
    \A r \in RunIds :
        \A t \in TasksBy(r) :
            /\ t.status = "pending"
            /\ t.completed_at = None
            /\ t.deadline = None
            /\ t.assigned_to = None
            /\ t.patient_id = run[r].patient_id

(* -------------------------------- C27 ----------------------------------- *)

\* the positions of run_task_generator_agent
SynthesisPcs ==
    { "tg_find", "tg_log_start", "tg_llm", "tg_insert", "tg_update",
      "tg_log_done", "hf_insert", "hf_update", "hf_log" }

\* the tasks the invocation of run_task_generator_agent that run r is in
\* has inserted: the turns each of its two loops has made
InsertedSoFar(r) == (run[r].k - 1) + (run[r].hk - 1)

\* C27: the step with which a Task Synthesis invocation ends, on the
\* primary path or on the hard fallback, appends an AgentLog entry of the
\* task generator for the patient that records the number of tasks the
\* invocation inserted
C27_OutcomeLogged ==
    [][ \A r \in RunIds :
          ( /\ run[r].pc \in SynthesisPcs
            /\ run'[r].pc \notin SynthesisPcs )
          => \E l \in agent_logs' \ agent_logs :
                /\ l.patient_id = run[r].patient_id
                /\ l.agent_type = "task_generator_agent"
                /\ "task_count" \in DOMAIN l.result
                /\ l.result.task_count = InsertedSoFar(r) ]_vars

(* -------------------------------- C28 ----------------------------------- *)

\* C28: the id a run gives to a task it inserts is the id of no other Task
\* record, of the same run or of an earlier one
C28_DistinctIds ==
    \A r \in RunIds :
        \A t \in TasksBy(r) :
            \A u \in tasks : t.id = u.id => t = u

(* -------------------------------- C29 ----------------------------------- *)

\* C29: one invocation of run_extraction_agent makes the verification call
\* at most once and calls run_task_generator_agent at most once
C29_AtMostOnce ==
    \A r \in RunIds :
        run[r].entry = "extraction" =>
            /\ run[r].verifies <= 1
            /\ run[r].tg_calls <= 1

(* -------------------------------- C30 ----------------------------------- *)

\* C30: a patient with tasks_generated = true has extraction_completed =
\* true and at least one ExtractedData record
C30_GeneratedAfterExtraction ==
    \A p \in PatientIds :
        patients[p].tasks_generated =>
            /\ patients[p].extraction_completed
            /\ \E k \in DOMAIN extracted_data : extracted_data[k].patient_id = p

====
